---- MODULE Spec2Model ----
(***************************************************************************)
(* Dropbox change synchronisation of allmediasync.                         *)
(*                                                                         *)
(* api/webhooks/dropbox.ts : handler, processDropboxChanges,               *)
(*                           notifyAboutNewFile                            *)
(* lib/dropbox.ts          : getLatestChanges, filterNewFiles,             *)
(*                           isInWatchedFolder, getWatchedFolders,         *)
(*                           getCursor, setCursor, getChannelForPath,      *)
(*                           getDropboxChannelMapping, getDropboxClient    *)
(* api/slack/commands.ts   : the ClickUp webhook handler,                  *)
(*                           handleTaskStatusUpdated, getChannelMapping    *)
(*                                                                         *)
(* Node runs one handler at a time until it reaches an await; every action *)
(* below is one such uninterrupted stretch of a webhook request, or one    *)
(* step of the upstream Dropbox feed.                                      *)
(***************************************************************************)
EXTENDS Integers, Sequences, FiniteSets, TLC

\* ---------------------------------------------------------------- bounds
\* Number of webhook POST requests (each starts one run of processDropboxChanges).
MaxRuns == 2
\* Largest length the upstream change feed grows to.
MaxFeed == 2
\* Number of entries the upstream returns per page.
PageSize == 1

Runs == 1..MaxRuns

\* ------------------------------------------------------------ strings
\* A string is a sequence of one-character strings.
Lower(c) ==
    CASE c = "A" -> "a"
      [] c = "B" -> "b"
      [] OTHER -> c

\* String.prototype.toLowerCase
toLowerCase(s) == [k \in 1..Len(s) |-> Lower(s[k])]

\* String.prototype.startsWith
startsWith(s, p) == Len(p) <= Len(s) /\ SubSeq(s, 1, Len(p)) = p

\* Index of the first sep in s, 0 when there is none.
RECURSIVE IndexFrom(_, _, _)
IndexFrom(s, sep, k) ==
    IF k > Len(s) THEN 0
    ELSE IF s[k] = sep THEN k
    ELSE IndexFrom(s, sep, k + 1)

\* String.prototype.split(sep): the pieces between separators, empty ones kept.
RECURSIVE split(_, _)
split(s, sep) ==
    LET k == IndexFrom(s, sep, 1) IN
    IF k = 0 THEN <<s>>
    ELSE <<SubSeq(s, 1, k - 1)>> \o split(SubSeq(s, k + 1, Len(s)), sep)

\* String.prototype.lastIndexOf(sep): the last position of sep in s, 0 when
\* there is none (positions count from 1 here, from 0 in the source).
RECURSIVE lastIndexOf(_, _)
lastIndexOf(s, sep) ==
    IF s = <<>> THEN 0
    ELSE IF s[Len(s)] = sep THEN Len(s)
    ELSE lastIndexOf(SubSeq(s, 1, Len(s) - 1), sep)

\* String.prototype.trim
RECURSIVE trim(_)
trim(s) ==
    IF s = <<>> THEN s
    ELSE IF Head(s) = " " THEN trim(Tail(s))
    ELSE IF s[Len(s)] = " " THEN trim(SubSeq(s, 1, Len(s) - 1))
    ELSE s

\* ------------------------------------------------------------ upstream data
\* A cursor is a position in the upstream feed (the number of entries before
\* it); NoCursor is the null / undefined / empty cursor, which is falsy.
NoCursor == -1
Truthy(c) == c # NoCursor

PathAx == <<"/", "A", "/", "x">>
PathBy == <<"/", "b", "/", "y">>
PathA  == <<"/", "A">>

\* DropboxMetadata entries the feed can report ('.tag', id, path_display,
\* server_modified).
FileAx   == [tag |-> "file",    id |-> "id:1", path_display |-> PathAx, server_modified |-> "t1"]
FileBy   == [tag |-> "file",    id |-> "id:2", path_display |-> PathBy, server_modified |-> "t1"]
FolderA  == [tag |-> "folder",  id |-> "id:3", path_display |-> PathA,  server_modified |-> "t1"]

Entries == {FileAx, FileBy, FolderA}

\* Values of DROPBOX_WATCHED_FOLDERS: not set (or empty, equally falsy), or " /a," .
WatchedEnvs == {<<>>, <<" ", "/", "a", ",">>}

\* Values of DROPBOX_CURSOR: not set, or the feed position 1.
CursorEnvs == {NoCursor, 1}

\* Values of DROPBOX_ACCESS_TOKEN: not set, or a token.
TokenEnvs == {<<>>, <<"t">>}

\* Values of SLACK_NOTIFICATION_CHANNEL: not set, or "d".
ChannelEnvs == {<<>>, <<"d">>}

\* The channel both resolvers fall back to when that variable is not set.
AllMedia == <<"a", "l", "l", "-", "m", "e", "d", "i", "a">>

\* Values of DROPBOX_CHANNEL_MAPPING:
\*   not set; "/A/b:p,/a:q"; "/a:q, /a/b :p"; "/A:p,/a:q"; "x,:p,/b:"
DropboxMappingEnvs ==
    { <<>>,
      <<"/", "A", "/", "b", ":", "p", ",", "/", "a", ":", "q">>,
      <<"/", "a", ":", "q", ",", " ", "/", "a", "/", "b", " ", ":", "p">>,
      <<"/", "A", ":", "p", ",", "/", "a", ":", "q">>,
      <<"x", ",", ":", "p", ",", "/", "b", ":">> }

\* File paths the resolver is asked about: "/A/x", "/b/y", "/a/B/x", "/y",
\* "/Ab/x".
PathaBx == <<"/", "a", "/", "B", "/", "x">>
PathY   == <<"/", "y">>
PathAbx == <<"/", "A", "b", "/", "x">>
Paths == {PathAx, PathBy, PathaBx, PathY, PathAbx}

\* A deletion the feed reports, and the entries the library functions are
\* called with.
DeletedBy == [tag |-> "deleted", id |-> "", path_display |-> PathBy, server_modified |-> ""]
LibEntries == Entries \cup {DeletedBy}

VARIABLES
    feed,           \* upstream: the change feed, a cursor is a position in it
    envWatched,     \* process.env.DROPBOX_WATCHED_FOLDERS
    envCursor,      \* process.env.DROPBOX_CURSOR
    storedCursor,   \* lib/dropbox.ts: let storedCursor
    pc,             \* per request: where its handler is suspended
    cursor,         \* per run: const cursor = getCursor()
    currentCursor,  \* per run: let currentCursor
    hasMore,        \* per run: let hasMore
    newFiles,       \* per run: const newFiles
    idx,            \* per run: position of the for..of loop in newFiles
    resp,           \* per run: the upstream's answer to the pending fetch
    log,            \* history: per run, what it has done, in program order
    writeCount,     \* history: number of setCursor calls so far
    envToken,       \* process.env.DROPBOX_ACCESS_TOKEN
    dropboxClient,  \* lib/dropbox.ts: let dropboxClient (FALSE is null)
    envDropboxMapping, \* process.env.DROPBOX_CHANNEL_MAPPING
    envChannelMapping, \* process.env.CHANNEL_MAPPING
    envChannel,     \* process.env.SLACK_NOTIFICATION_CHANNEL
    cu,             \* the ClickUp webhook request: where its handler is, and its history
    lib,            \* history: the last call of a lib/dropbox.ts function, with its result
    envAppSecret,   \* process.env.DROPBOX_APP_SECRET
    envSigningSecret, \* process.env.SLACK_SIGNING_SECRET
    web             \* the HTTP request to an endpoint: where its handler is, and its responses

\* What the Dropbox webhook's run never writes.
webVars == <<envAppSecret, envSigningSecret, web>>
libVars == <<envDropboxMapping, envChannelMapping, envChannel, cu, lib, webVars>>

vars == <<feed, envWatched, envCursor, storedCursor, pc, cursor, currentCursor,
          hasMore, newFiles, idx, resp, log, writeCount, envToken, dropboxClient,
          libVars>>

\* resp is <<>> while the request is in flight and <<page>> once answered.

\* ------------------------------------------------------------ lib/dropbox.ts
\* filterNewFiles dropping the folders only.
filterNewFiles_notFolders(entries) == SelectSeq(entries, LAMBDA e : e.tag # "folder")

filterNewFiles(entries) == SelectSeq(entries, LAMBDA e : e.tag = "file")

\* isInWatchedFolder without the two toLowerCase calls.
isInWatchedFolder_caseSensitive(filePath, watchedFolders) ==
    \E k \in 1..Len(watchedFolders) : startsWith(filePath, watchedFolders[k])

\* isInWatchedFolder matching whole path segments only.
isInWatchedFolder_segmentAware(filePath, watchedFolders) ==
    LET normalizedPath == toLowerCase(filePath) IN
    \E k \in 1..Len(watchedFolders) :
        /\ startsWith(normalizedPath, toLowerCase(watchedFolders[k]))
        /\ \/ Len(filePath) = Len(watchedFolders[k])
           \/ watchedFolders[k][Len(watchedFolders[k])] = "/"
           \/ filePath[Len(watchedFolders[k]) + 1] = "/"

isInWatchedFolder(filePath, watchedFolders) ==
    LET normalizedPath == toLowerCase(filePath) IN
    \E k \in 1..Len(watchedFolders) :
        startsWith(normalizedPath, toLowerCase(watchedFolders[k]))

getWatchedFolders ==
    IF envWatched = <<>> THEN <<>>
    ELSE LET parts == split(envWatched, ",")
             trimmed == [k \in 1..Len(parts) |-> trim(parts[k])]
         IN SelectSeq(trimmed, LAMBDA f : f # <<>>)

\* getCursor with the environment's cursor taking precedence.
getCursor_envFirst ==
    IF Truthy(envCursor) THEN envCursor
    ELSE IF Truthy(storedCursor) THEN storedCursor
    ELSE NoCursor

getCursor ==
    IF Truthy(storedCursor) THEN storedCursor
    ELSE IF Truthy(envCursor) THEN envCursor
    ELSE NoCursor

\* The value storedCursor has after setCursor(c).
setCursor(c) == c

\* A Record<string, string>: its entries in insertion order. Assigning to a
\* key the record has replaces the value and keeps the entry's place.
Put(mapping, key, value) ==
    IF \E k \in 1..Len(mapping) : mapping[k].key = key
    THEN [k \in 1..Len(mapping) |->
            IF mapping[k].key = key THEN [key |-> key, value |-> value] ELSE mapping[k]]
    ELSE Append(mapping, [key |-> key, value |-> value])

\* The for..of loop of getDropboxChannelMapping over the pairs from position k.
RECURSIVE DropboxMappingFrom(_, _, _)
DropboxMappingFrom(pairs, k, mapping) ==
    IF k > Len(pairs) THEN mapping
    ELSE LET pair == pairs[k]
             colonIndex == lastIndexOf(pair, ":")
             folder == trim(SubSeq(pair, 1, colonIndex - 1))
             channel == trim(SubSeq(pair, colonIndex + 1, Len(pair)))
         IN IF colonIndex > 1 /\ folder # <<>> /\ channel # <<>>
            THEN DropboxMappingFrom(pairs, k + 1, Put(mapping, toLowerCase(folder), channel))
            ELSE DropboxMappingFrom(pairs, k + 1, mapping)

getDropboxChannelMapping ==
    IF envDropboxMapping = <<>> THEN <<>>
    ELSE DropboxMappingFrom(split(envDropboxMapping, ","), 1, <<>>)

\* The for..of loop of getChannelForPath over Object.entries(mapping) from
\* position k.
RECURSIVE BestChannelFrom(_, _, _, _, _)
BestChannelFrom(mapping, k, normalizedPath, bestMatch, bestChannel) ==
    IF k > Len(mapping) THEN bestChannel
    ELSE LET folder == mapping[k].key
             channel == mapping[k].value
         IN IF startsWith(normalizedPath, folder) /\ Len(folder) > Len(bestMatch)
            THEN BestChannelFrom(mapping, k + 1, normalizedPath, folder, channel)
            ELSE BestChannelFrom(mapping, k + 1, normalizedPath, bestMatch, bestChannel)

\* getChannelForPath returning the channel of the first entry that matches.
getChannelForPath_firstMatch(filePath) ==
    LET mapping == getDropboxChannelMapping
        matches == {k \in 1..Len(mapping) : startsWith(toLowerCase(filePath), mapping[k].key)}
    IN IF matches = {} THEN (IF envChannel # <<>> THEN envChannel ELSE AllMedia)
       ELSE mapping[CHOOSE k \in matches : \A j \in matches : k <= j].value

getChannelForPath(filePath) ==
    BestChannelFrom(getDropboxChannelMapping, 1, toLowerCase(filePath), <<>>,
                    IF envChannel # <<>> THEN envChannel ELSE AllMedia)

\* ------------------------------------------------------------ upstream feed
Min(a, b) == IF a <= b THEN a ELSE b

\* files/list_folder (no cursor: from the start) and files/list_folder/continue:
\* the next page of the feed after the cursor.
ListFolder(c) ==
    LET from == IF Truthy(c) THEN c ELSE 0
        to   == Min(from + PageSize, Len(feed))
    IN [entries |-> SubSeq(feed, from + 1, to),
        cursor  |-> to,
        hasMore |-> to < Len(feed)]

\* ------------------------------------------------------------ initial state
\* No ClickUp webhook request has arrived; no library function has been called.
NoRequest == [pc |-> "idle", payload |-> <<>>, log |-> <<>>]
NoCall == [op |-> "none"]
\* No HTTP request is followed.
NoHttp == [endpoint |-> "none", pc |-> "idle", res |-> <<>>, caught |-> <<>>,
           started |-> FALSE]

\* The Dropbox webhook's deployment: the two resolver mappings are not
\* configured (they have no part in the run's cursor and dispatch steps).
Init ==
    /\ feed \in UNION {[1..n -> Entries] : n \in 0..MaxFeed}
    /\ envWatched \in WatchedEnvs
    /\ envCursor \in {c \in CursorEnvs : Truthy(c) => c <= Len(feed)}
    /\ storedCursor = NoCursor
    /\ pc = [r \in Runs |-> "idle"]
    /\ cursor = [r \in Runs |-> NoCursor]
    /\ currentCursor = [r \in Runs |-> NoCursor]
    /\ hasMore = [r \in Runs |-> FALSE]
    /\ newFiles = [r \in Runs |-> <<>>]
    /\ idx = [r \in Runs |-> 0]
    /\ resp = [r \in Runs |-> <<>>]
    /\ log = [r \in Runs |-> <<>>]
    /\ writeCount = 0
    /\ envToken \in TokenEnvs
    /\ dropboxClient = FALSE
    /\ envDropboxMapping = <<>>
    /\ envChannelMapping = <<>>
    /\ envChannel = <<>>
    /\ cu = NoRequest
    /\ lib = NoCall
    /\ envAppSecret = <<>>
    /\ envSigningSecret = <<>>
    /\ web = NoHttp

\* ------------------------------------------------------------ history events
Started(stored, n) == [ev |-> "start", stored |-> stored, writes |-> n]
\* getLatestChanges(c || undefined): without a cursor filesListFolder lists the
\* root recursively, with one filesListFolderContinue goes on from it.
Fetch(c)           == [ev |-> "fetch", arg |-> c,
                       api |-> IF Truthy(c) THEN "filesListFolderContinue"
                               ELSE "filesListFolder"]
Page(result)       == [ev |-> "page", entries |-> result.entries,
                       cursor |-> result.cursor, hasMore |-> result.hasMore]
FetchError(stored, n) == [ev |-> "fetchError", stored |-> stored, writes |-> n]
SetCursor(c)       == [ev |-> "setCursor", cursor |-> c]
Notify(file)       == [ev |-> "notify", file |-> file]
Notified(file)     == [ev |-> "notified", file |-> file]
NotifyError(file)  == [ev |-> "notifyError", file |-> file]

\* ------------------------------------------------------------ upstream steps
\* A change happens in the Dropbox account: the feed grows by one entry. The
\* upstream may report an entry it has reported before.
Upload(e) ==
    /\ Len(feed) < MaxFeed
    /\ feed' = Append(feed, e)
    /\ UNCHANGED <<envWatched, envCursor, storedCursor, pc, cursor, currentCursor,
                   hasMore, newFiles, idx, resp, log, writeCount>>
    /\ UNCHANGED <<envToken, dropboxClient, libVars>>

\* The upstream answers the pending getLatestChanges request of run r from
\* the feed as it is now.
filesListFolder(r) ==
    /\ pc[r] = "fetching"
    /\ resp[r] = <<>>
    /\ resp' = [resp EXCEPT ![r] = <<ListFolder(currentCursor[r])>>]
    /\ UNCHANGED <<feed, envWatched, envCursor, storedCursor, pc, cursor,
                   currentCursor, hasMore, newFiles, idx, log, writeCount>>
    /\ UNCHANGED <<envToken, dropboxClient, libVars>>

\* ------------------------------------------------------------ api/webhooks/dropbox.ts
\* The watched-folder filter of the loop body (lines 88-93).
relevantFiles(entries) ==
    LET watchedFolders == getWatchedFolders
        files == filterNewFiles(entries)
    IN IF Len(watchedFolders) > 0
       THEN SelectSeq(files, LAMBDA f : isInWatchedFolder(f.path_display, watchedFolders))
       ELSE files

\* A webhook POST arrives (requests are numbered in arrival order) and is
\* acknowledged; processDropboxChanges starts: it reads the watched folders
\* and the cursor and sends its first getLatestChanges request.
\* handler with a client created whether or not there is an access token.
handler_noTokenCheck(r) ==
    /\ pc[r] = "idle"
    /\ r > 1 => pc[r - 1] # "idle"
    /\ cursor' = [cursor EXCEPT ![r] = getCursor]
    /\ currentCursor' = [currentCursor EXCEPT ![r] = getCursor]
    /\ hasMore' = [hasMore EXCEPT ![r] = TRUE]
    /\ newFiles' = [newFiles EXCEPT ![r] = <<>>]
    /\ pc' = [pc EXCEPT ![r] = "fetching"]
    /\ log' = [log EXCEPT ![r] = <<Started(storedCursor, writeCount), Fetch(getCursor)>>]
    /\ dropboxClient' = TRUE
    /\ UNCHANGED <<feed, envWatched, envCursor, storedCursor, idx, resp, writeCount>>
    /\ UNCHANGED <<envToken, libVars>>

\* getLatestChanges starts with getDropboxClient, which throws when there is
\* no client yet and no access token: the call rejects before any request is
\* sent, and the handler's catch logs it.
handler(r) ==
    /\ pc[r] = "idle"
    /\ r > 1 => pc[r - 1] # "idle"
    /\ cursor' = [cursor EXCEPT ![r] = getCursor]
    /\ currentCursor' = [currentCursor EXCEPT ![r] = getCursor]
    /\ hasMore' = [hasMore EXCEPT ![r] = TRUE]
    /\ newFiles' = [newFiles EXCEPT ![r] = <<>>]
    /\ IF ~dropboxClient /\ envToken = <<>>
       THEN /\ pc' = [pc EXCEPT ![r] = "failed"]
            /\ log' = [log EXCEPT ![r] = <<Started(storedCursor, writeCount),
                                            Fetch(getCursor),
                                            FetchError(storedCursor, writeCount)>>]
            /\ dropboxClient' = dropboxClient
       ELSE /\ pc' = [pc EXCEPT ![r] = "fetching"]
            /\ log' = [log EXCEPT ![r] = <<Started(storedCursor, writeCount),
                                            Fetch(getCursor)>>]
            /\ dropboxClient' = TRUE
    /\ UNCHANGED <<feed, envWatched, envCursor, storedCursor, idx, resp, writeCount>>
    /\ UNCHANGED <<envToken, libVars>>

\* FetchFails with the furthest cursor reached saved on the way out.
FetchFails_partialAdvance(r) ==
    /\ pc[r] = "fetching"
    /\ resp[r] = <<>>
    /\ pc' = [pc EXCEPT ![r] = "failed"]
    /\ storedCursor' = IF Truthy(currentCursor[r]) THEN currentCursor[r] ELSE storedCursor
    /\ log' = [log EXCEPT ![r] = Append(@, FetchError(storedCursor', writeCount))]
    /\ UNCHANGED <<feed, envWatched, envCursor, cursor, currentCursor,
                   hasMore, newFiles, idx, resp, writeCount>>
    /\ UNCHANGED <<envToken, dropboxClient, libVars>>

\* FetchFails as a break out of the while loop: what the earlier pages
\* collected is still dispatched, the cursor is not saved.
FetchFails_flushes(r) ==
    /\ pc[r] = "fetching"
    /\ resp[r] = <<>>
    /\ IF 1 <= Len(newFiles[r])
       THEN /\ pc' = [pc EXCEPT ![r] = "notifying"]
            /\ idx' = [idx EXCEPT ![r] = 1]
            /\ log' = [log EXCEPT ![r] = @ \o <<FetchError(storedCursor, writeCount),
                                                 Notify(newFiles[r][1])>>]
       ELSE /\ pc' = [pc EXCEPT ![r] = "failed"]
            /\ idx' = idx
            /\ log' = [log EXCEPT ![r] = Append(@, FetchError(storedCursor, writeCount))]
    /\ UNCHANGED <<feed, envWatched, envCursor, storedCursor, cursor, currentCursor,
                   hasMore, newFiles, resp, writeCount>>
    /\ UNCHANGED <<envToken, dropboxClient, libVars>>

\* await getLatestChanges rejects (network, rate limit, credentials): the
\* error leaves the while loop and processDropboxChanges, and the handler's
\* catch logs it.
FetchFails(r) ==
    /\ pc[r] = "fetching"
    /\ resp[r] = <<>>
    /\ pc' = [pc EXCEPT ![r] = "failed"]
    /\ log' = [log EXCEPT ![r] = Append(@, FetchError(storedCursor, writeCount))]
    /\ UNCHANGED <<feed, envWatched, envCursor, storedCursor, cursor, currentCursor,
                   hasMore, newFiles, idx, resp, writeCount>>
    /\ UNCHANGED <<envToken, dropboxClient, libVars>>

\* NextPage with the next request sent from the cursor the run started with.
NextPage_staleCursor(r) ==
    /\ pc[r] = "fetching"
    /\ resp[r] # <<>>
    /\ LET result == resp[r][1] IN
        /\ result.hasMore
        /\ newFiles' = [newFiles EXCEPT ![r] = @ \o relevantFiles(result.entries)]
        /\ currentCursor' = [currentCursor EXCEPT ![r] = cursor[r]]
        /\ hasMore' = [hasMore EXCEPT ![r] = result.hasMore]
        /\ resp' = [resp EXCEPT ![r] = <<>>]
        /\ log' = [log EXCEPT ![r] = @ \o <<Page(result), Fetch(cursor[r])>>]
    /\ UNCHANGED <<feed, envWatched, envCursor, storedCursor, pc, cursor, idx,
                   writeCount>>
    /\ UNCHANGED <<envToken, dropboxClient, libVars>>

\* NextPage with the cursor saved after every page.
NextPage_persists(r) ==
    /\ pc[r] = "fetching"
    /\ resp[r] # <<>>
    /\ LET result == resp[r][1] IN
        /\ result.hasMore
        /\ newFiles' = [newFiles EXCEPT ![r] = @ \o relevantFiles(result.entries)]
        /\ currentCursor' = [currentCursor EXCEPT ![r] = result.cursor]
        /\ hasMore' = [hasMore EXCEPT ![r] = result.hasMore]
        /\ resp' = [resp EXCEPT ![r] = <<>>]
        /\ storedCursor' = setCursor(result.cursor)
        /\ writeCount' = writeCount + 1
        /\ log' = [log EXCEPT ![r] = @ \o <<Page(result), SetCursor(result.cursor),
                                             Fetch(result.cursor)>>]
    /\ UNCHANGED <<feed, envWatched, envCursor, pc, cursor, idx>>
    /\ UNCHANGED <<envToken, dropboxClient, libVars>>

\* NextPage with the next request sent without a cursor.
NextPage_freshListing(r) ==
    /\ pc[r] = "fetching"
    /\ resp[r] # <<>>
    /\ LET result == resp[r][1] IN
        /\ result.hasMore
        /\ newFiles' = [newFiles EXCEPT ![r] = @ \o relevantFiles(result.entries)]
        /\ currentCursor' = [currentCursor EXCEPT ![r] = NoCursor]
        /\ hasMore' = [hasMore EXCEPT ![r] = result.hasMore]
        /\ resp' = [resp EXCEPT ![r] = <<>>]
        /\ log' = [log EXCEPT ![r] = @ \o <<Page(result), Fetch(NoCursor)>>]
    /\ UNCHANGED <<feed, envWatched, envCursor, storedCursor, pc, cursor, idx,
                   writeCount>>
    /\ UNCHANGED <<envToken, dropboxClient, libVars>>

\* await getLatestChanges returns a page with hasMore = true: the loop body
\* runs and the next request is sent with the cursor the page returned.
NextPage(r) ==
    /\ pc[r] = "fetching"
    /\ resp[r] # <<>>
    /\ LET result == resp[r][1] IN
        /\ result.hasMore
        /\ newFiles' = [newFiles EXCEPT ![r] = @ \o relevantFiles(result.entries)]
        /\ currentCursor' = [currentCursor EXCEPT ![r] = result.cursor]
        /\ hasMore' = [hasMore EXCEPT ![r] = result.hasMore]
        /\ resp' = [resp EXCEPT ![r] = <<>>]
        /\ log' = [log EXCEPT ![r] = @ \o <<Page(result), Fetch(result.cursor)>>]
    /\ UNCHANGED <<feed, envWatched, envCursor, storedCursor, pc, cursor, idx,
                   writeCount>>
    /\ UNCHANGED <<envToken, dropboxClient, libVars>>

\* The for..of loop of processDropboxChanges reaches position k of the run's
\* newFiles list nf: notifyAboutNewFile is called and awaits,
\* or the list is exhausted and the handler returns.
Dispatch(r, nf, k, lg) ==
    IF k <= Len(nf)
    THEN /\ pc' = [pc EXCEPT ![r] = "notifying"]
         /\ idx' = [idx EXCEPT ![r] = k]
         /\ log' = [log EXCEPT ![r] = Append(lg, Notify(nf[k]))]
    ELSE /\ pc' = [pc EXCEPT ![r] = "done"]
         /\ idx' = [idx EXCEPT ![r] = k]
         /\ log' = [log EXCEPT ![r] = lg]

\* LastPage without lines 102-104: the cursor is not saved before the
\* for..of loop starts.
LastPage_noPersist(r) ==
    /\ pc[r] = "fetching"
    /\ resp[r] # <<>>
    /\ LET result == resp[r][1]
           nf == newFiles[r] \o relevantFiles(result.entries)
       IN
        /\ ~result.hasMore
        /\ newFiles' = [newFiles EXCEPT ![r] = nf]
        /\ currentCursor' = [currentCursor EXCEPT ![r] = result.cursor]
        /\ hasMore' = [hasMore EXCEPT ![r] = result.hasMore]
        /\ resp' = [resp EXCEPT ![r] = <<>>]
        /\ UNCHANGED <<storedCursor, writeCount>>
        /\ Dispatch(r, nf, 1, Append(log[r], Page(result)))
    /\ UNCHANGED <<feed, envWatched, envCursor, cursor>>
    /\ UNCHANGED <<envToken, dropboxClient, libVars>>

\* LastPage with newFiles assigned, not pushed to: the files of the earlier
\* pages are dropped.
LastPage_dropsEarlierPages(r) ==
    /\ pc[r] = "fetching"
    /\ resp[r] # <<>>
    /\ LET result == resp[r][1]
           nf == relevantFiles(result.entries)
       IN
        /\ ~result.hasMore
        /\ newFiles' = [newFiles EXCEPT ![r] = nf]
        /\ currentCursor' = [currentCursor EXCEPT ![r] = result.cursor]
        /\ hasMore' = [hasMore EXCEPT ![r] = result.hasMore]
        /\ resp' = [resp EXCEPT ![r] = <<>>]
        /\ storedCursor' = setCursor(result.cursor)
        /\ writeCount' = writeCount + 1
        /\ Dispatch(r, nf, 1, log[r] \o <<Page(result), SetCursor(result.cursor)>>)
    /\ UNCHANGED <<feed, envWatched, envCursor, cursor>>
    /\ UNCHANGED <<envToken, dropboxClient, libVars>>

\* LastPage with the last page's files put in front of the earlier pages'.
LastPage_prepends(r) ==
    /\ pc[r] = "fetching"
    /\ resp[r] # <<>>
    /\ LET result == resp[r][1]
           nf == relevantFiles(result.entries) \o newFiles[r]
       IN
        /\ ~result.hasMore
        /\ newFiles' = [newFiles EXCEPT ![r] = nf]
        /\ currentCursor' = [currentCursor EXCEPT ![r] = result.cursor]
        /\ hasMore' = [hasMore EXCEPT ![r] = result.hasMore]
        /\ resp' = [resp EXCEPT ![r] = <<>>]
        /\ IF Truthy(result.cursor)
           THEN /\ storedCursor' = setCursor(result.cursor)
                /\ writeCount' = writeCount + 1
                /\ Dispatch(r, nf, 1, log[r] \o <<Page(result), SetCursor(result.cursor)>>)
           ELSE /\ UNCHANGED <<storedCursor, writeCount>>
                /\ Dispatch(r, nf, 1, Append(log[r], Page(result)))
    /\ UNCHANGED <<feed, envWatched, envCursor, cursor>>
    /\ UNCHANGED <<envToken, dropboxClient, libVars>>

\* await getLatestChanges returns the page with hasMore = false: the loop
\* ends, the cursor is saved (lines 102-104) and the for..of loop starts.
LastPage(r) ==
    /\ pc[r] = "fetching"
    /\ resp[r] # <<>>
    /\ LET result == resp[r][1]
           nf == newFiles[r] \o relevantFiles(result.entries)
       IN
        /\ ~result.hasMore
        /\ newFiles' = [newFiles EXCEPT ![r] = nf]
        /\ currentCursor' = [currentCursor EXCEPT ![r] = result.cursor]
        /\ hasMore' = [hasMore EXCEPT ![r] = result.hasMore]
        /\ resp' = [resp EXCEPT ![r] = <<>>]
        /\ IF Truthy(result.cursor)
           THEN /\ storedCursor' = setCursor(result.cursor)
                /\ writeCount' = writeCount + 1
                /\ Dispatch(r, nf, 1, log[r] \o <<Page(result), SetCursor(result.cursor)>>)
           ELSE /\ UNCHANGED <<storedCursor, writeCount>>
                /\ Dispatch(r, nf, 1, Append(log[r], Page(result)))
    /\ UNCHANGED <<feed, envWatched, envCursor, cursor>>
    /\ UNCHANGED <<envToken, dropboxClient, libVars>>

\* notifyAboutNewFile awaits getSharedLink and then notifyFileUploaded. A
\* failure of getSharedLink only replaces the link by the home link, and
\* neither await touches anything but the run's own locals, so the two are
\* one step here, with the outcome of the send.

\* await notifyFileUploaded returns: the notification is logged and the for..of
\* loop goes on.
NotifySucceeds(r) ==
    /\ pc[r] = "notifying"
    /\ Dispatch(r, newFiles[r], idx[r] + 1,
                Append(log[r], Notified(newFiles[r][idx[r]])))
    /\ UNCHANGED <<feed, envWatched, envCursor, storedCursor, cursor, currentCursor,
                   hasMore, newFiles, resp, writeCount>>
    /\ UNCHANGED <<envToken, dropboxClient, libVars>>

\* NotifyFails without the try/catch of the for..of loop: the error leaves
\* processDropboxChanges.
NotifyFails_aborts(r) ==
    /\ pc[r] = "notifying"
    /\ pc' = [pc EXCEPT ![r] = "failed"]
    /\ log' = [log EXCEPT ![r] = Append(@, NotifyError(newFiles[r][idx[r]]))]
    /\ UNCHANGED <<feed, envWatched, envCursor, storedCursor, cursor, currentCursor,
                   hasMore, newFiles, idx, resp, writeCount>>
    /\ UNCHANGED <<envToken, dropboxClient, libVars>>

\* NotifyFails with the failed file sent again.
NotifyFails_retries(r) ==
    /\ pc[r] = "notifying"
    /\ Dispatch(r, newFiles[r], idx[r],
                Append(log[r], NotifyError(newFiles[r][idx[r]])))
    /\ UNCHANGED <<feed, envWatched, envCursor, storedCursor, cursor, currentCursor,
                   hasMore, newFiles, resp, writeCount>>
    /\ UNCHANGED <<envToken, dropboxClient, libVars>>

\* await notifyFileUploaded throws: the catch inside the for..of loop logs
\* the error and the loop goes on.
NotifyFails(r) ==
    /\ pc[r] = "notifying"
    /\ Dispatch(r, newFiles[r], idx[r] + 1,
                Append(log[r], NotifyError(newFiles[r][idx[r]])))
    /\ UNCHANGED <<feed, envWatched, envCursor, storedCursor, cursor, currentCursor,
                   hasMore, newFiles, resp, writeCount>>
    /\ UNCHANGED <<envToken, dropboxClient, libVars>>

\* The counts run r logs or returns: processDropboxChanges returns nothing
\* and logs one count, the number of new files found (line 106).
reports(r) == [name \in {"classified"} |-> Len(newFiles[r])]

\* ------------------------------------------------------------ specification
\* The steps of the webhook requests and of the upstream answering them.
NextStable ==
    \/ \E r \in Runs : filesListFolder(r)
    \/ \E r \in Runs : handler(r)
    \/ \E r \in Runs : FetchFails(r)
    \/ \E r \in Runs : NextPage(r)
    \/ \E r \in Runs : LastPage(r)
    \/ \E r \in Runs : NotifySucceeds(r)
    \/ \E r \in Runs : NotifyFails(r)

Next ==
    \/ \E e \in Entries : Upload(e)
    \/ NextStable

\* Requests arrive at any time, also while earlier runs are in progress, and
\* the feed grows at any time.
Spec == Init /\ [][Next]_vars

\* The same, against a feed that does not change while the requests are
\* processed (it is any feed up to MaxFeed entries from the start).
SpecStable == Init /\ [][NextStable]_vars

\* The steps when every getLatestChanges call returns a page.
NextLive ==
    \/ \E r \in Runs : filesListFolder(r)
    \/ \E r \in Runs : handler(r)
    \/ \E r \in Runs : NextPage(r)
    \/ \E r \in Runs : LastPage(r)
    \/ \E r \in Runs : NotifySucceeds(r)
    \/ \E r \in Runs : NotifyFails(r)

\* Every call a run awaits returns: the upstream answers a pending request
\* with a page, the event loop resumes a run that received an answer, and a
\* send settles, in success or in failure. Some step is taken as long as one
\* is possible.
SpecLive == Init /\ [][NextLive]_vars /\ WF_vars(NextLive)

\* ------------------------------------------------------------ ClickUp webhook
\* The webhook handler of ClickUp events (handler, handleTaskStatusUpdated and
\* getChannelMapping, lines 258-369 of api/slack/commands.ts).

\* Largest number of history_items in a webhook payload.
MaxItems == 2

\* ClickUpHistoryItem before / after: <<>> is null, <<s>> the status s.
Open       == [status |-> "to do",       type |-> "open"]
InProgress == [status |-> "in progress", type |-> "custom"]
Closed     == [status |-> "complete",    type |-> "closed"]
StatusValues == {<<>>, <<Open>>, <<InProgress>>, <<Closed>>}

HistoryItems ==
    {[field |-> "status", before |-> b, after |-> a] : b \in StatusValues, a \in StatusValues}
    \cup {[field |-> "assignee", before |-> <<>>, after |-> <<>>]}

\* ClickUpWebhookPayload: event and history_items.
Payloads ==
    {[event |-> e, history_items |-> h] :
        e \in {"taskStatusUpdated", "taskCreated"},
        h \in UNION {[1..n -> HistoryItems] : n \in 0..MaxItems}}

\* task.space.name of the task getTask returns: "A", "a", "b".
SpaceNames == {<<"A">>, <<"a">>, <<"b">>}

\* Values of CHANNEL_MAPPING: not set; "A:p,b:q"; " a : q ,x".
ChannelMappingEnvs ==
    { <<>>,
      <<"A", ":", "p", ",", "b", ":", "q">>,
      <<" ", "a", " ", ":", " ", "q", " ", ",", "x">> }

\* What the Dropbox webhook's run reads and writes apart from the cursor.
runLocals == <<feed, pc, cursor, currentCursor, hasMore, newFiles, idx, resp, log,
               writeCount, envToken, dropboxClient>>

\* history_items.find(item => item.field === 'status'): <<>> is undefined.
RECURSIVE find(_, _)
find(items, field) ==
    IF items = <<>> THEN <<>>
    ELSE IF Head(items).field = field THEN <<Head(items)>>
    ELSE find(Tail(items), field)

\* The for..of loop of getChannelMapping over the pairs from position k;
\* const [space, channel] = pair.split(':') takes the first two pieces.
RECURSIVE ChannelMappingFrom(_, _, _)
ChannelMappingFrom(pairs, k, mapping) ==
    IF k > Len(pairs) THEN mapping
    ELSE LET pieces == split(pairs[k], ":")
             space == pieces[1]
             channel == IF Len(pieces) >= 2 THEN pieces[2] ELSE <<>>
         IN IF space # <<>> /\ channel # <<>>
            THEN ChannelMappingFrom(pairs, k + 1, Put(mapping, trim(space), trim(channel)))
            ELSE ChannelMappingFrom(pairs, k + 1, mapping)

getChannelMapping ==
    IF envChannelMapping = <<>> THEN <<>>
    ELSE ChannelMappingFrom(split(envChannelMapping, ","), 1, <<>>)

\* mapping[key]: <<>> is undefined.
Lookup(mapping, key) ==
    IF \E k \in 1..Len(mapping) : mapping[k].key = key
    THEN (CHOOSE e \in {mapping[k] : k \in 1..Len(mapping)} : e.key = key).value
    ELSE <<>>

\* Line 339: the channel a completed task of the space is posted to.
channelFor(spaceName) ==
    LET mapped == Lookup(getChannelMapping, spaceName) IN
    IF mapped # <<>> THEN mapped
    ELSE IF envChannel # <<>> THEN envChannel
    ELSE AllMedia

\* History events of the ClickUp request.
Candidate(statusChange) == [ev |-> "candidate", change |-> statusChange]
Skipped(why)            == [ev |-> "skipped", why |-> why]
NotifyTask(name, ch)    == [ev |-> "notifyTaskCompleted", space |-> name, channel |-> ch]
Posted(ch)              == [ev |-> "posted", channel |-> ch]

\* clickupHandler with the completion test on the new status alone.
clickupHandler_afterOnly(payload) ==
    /\ cu.pc = "idle"
    /\ LET statusChange == find(payload.history_items, "status") IN
        cu' = IF payload.event # "taskStatusUpdated"
              THEN [pc |-> "done", payload |-> payload, log |-> <<>>]
              ELSE IF statusChange = <<>> \/ statusChange[1].after = <<>>
              THEN [pc |-> "done", payload |-> payload, log |-> <<Skipped("no status change")>>]
              ELSE IF statusChange[1].after[1].type = "closed"
              THEN [pc |-> "getTask", payload |-> payload,
                    log |-> <<Candidate(statusChange[1])>>]
              ELSE [pc |-> "done", payload |-> payload, log |-> <<Skipped("not a completion")>>]
    /\ UNCHANGED <<runLocals, envWatched, envCursor, storedCursor, envDropboxMapping,
                   envChannelMapping, envChannel, lib, webVars>>

\* clickupHandler taking a change for a completion only when it has a
\* previous status.
clickupHandler_requiresBefore(payload) ==
    /\ cu.pc = "idle"
    /\ LET statusChange == find(payload.history_items, "status") IN
        cu' = IF payload.event # "taskStatusUpdated"
              THEN [pc |-> "done", payload |-> payload, log |-> <<>>]
              ELSE IF statusChange = <<>> \/ statusChange[1].after = <<>>
              THEN [pc |-> "done", payload |-> payload, log |-> <<Skipped("no status change")>>]
              ELSE LET isNowComplete == statusChange[1].after[1].type = "closed"
                       wasNotComplete == /\ statusChange[1].before # <<>>
                                         /\ statusChange[1].before[1].type # "closed"
                   IN IF isNowComplete /\ wasNotComplete
                      THEN [pc |-> "getTask", payload |-> payload,
                            log |-> <<Candidate(statusChange[1])>>]
                      ELSE [pc |-> "done", payload |-> payload,
                            log |-> <<Skipped("not a completion")>>]
    /\ UNCHANGED <<runLocals, envWatched, envCursor, storedCursor, envDropboxMapping,
                   envChannelMapping, envChannel, lib, webVars>>

\* A ClickUp webhook POST arrives. A taskStatusUpdated event goes to
\* handleTaskStatusUpdated, which looks at the first status history item and,
\* for a completion, awaits getTask; every other event is only logged.
clickupHandler(payload) ==
    /\ cu.pc = "idle"
    /\ LET statusChange == find(payload.history_items, "status") IN
        cu' = IF payload.event # "taskStatusUpdated"
              THEN [pc |-> "done", payload |-> payload, log |-> <<>>]
              ELSE IF statusChange = <<>> \/ statusChange[1].after = <<>>
              THEN [pc |-> "done", payload |-> payload, log |-> <<Skipped("no status change")>>]
              ELSE LET isNowComplete == statusChange[1].after[1].type = "closed"
                       wasNotComplete == \/ statusChange[1].before = <<>>
                                         \/ statusChange[1].before[1].type # "closed"
                   IN IF isNowComplete /\ wasNotComplete
                      THEN [pc |-> "getTask", payload |-> payload,
                            log |-> <<Candidate(statusChange[1])>>]
                      ELSE [pc |-> "done", payload |-> payload,
                            log |-> <<Skipped("not a completion")>>]
    /\ UNCHANGED <<runLocals, envWatched, envCursor, storedCursor, envDropboxMapping,
                   envChannelMapping, envChannel, lib, webVars>>

\* await getTask returns the task (of the space with this name): the channel
\* is looked up and notifyTaskCompleted is called and awaited.
getTaskReturns(spaceName) ==
    /\ cu.pc = "getTask"
    /\ cu' = [cu EXCEPT !.pc = "notifying",
                        !.log = Append(@, NotifyTask(spaceName, channelFor(spaceName)))]
    /\ UNCHANGED <<runLocals, envWatched, envCursor, storedCursor, envDropboxMapping,
                   envChannelMapping, envChannel, lib, webVars>>

\* await getTask rejects: the handler's catch answers 500.
getTaskFails ==
    /\ cu.pc = "getTask"
    /\ cu' = [cu EXCEPT !.pc = "failed"]
    /\ UNCHANGED <<runLocals, envWatched, envCursor, storedCursor, envDropboxMapping,
                   envChannelMapping, envChannel, lib, webVars>>

\* await notifyTaskCompleted returns: the handler answers 200.
notifyTaskCompletedReturns ==
    /\ cu.pc = "notifying"
    /\ cu' = [cu EXCEPT !.pc = "done",
                        !.log = Append(@, Posted(cu.log[Len(cu.log)].channel))]
    /\ UNCHANGED <<runLocals, envWatched, envCursor, storedCursor, envDropboxMapping,
                   envChannelMapping, envChannel, lib, webVars>>

\* await notifyTaskCompleted rejects: the handler's catch answers 500.
notifyTaskCompletedFails ==
    /\ cu.pc = "notifying"
    /\ cu' = [cu EXCEPT !.pc = "failed"]
    /\ UNCHANGED <<runLocals, envWatched, envCursor, storedCursor, envDropboxMapping,
                   envChannelMapping, envChannel, lib, webVars>>

\* The ClickUp deployment: no Dropbox webhook request arrives.
InitClickUp ==
    /\ feed = <<>>
    /\ envWatched = <<>>
    /\ envCursor = NoCursor
    /\ storedCursor = NoCursor
    /\ pc = [r \in Runs |-> "idle"]
    /\ cursor = [r \in Runs |-> NoCursor]
    /\ currentCursor = [r \in Runs |-> NoCursor]
    /\ hasMore = [r \in Runs |-> FALSE]
    /\ newFiles = [r \in Runs |-> <<>>]
    /\ idx = [r \in Runs |-> 0]
    /\ resp = [r \in Runs |-> <<>>]
    /\ log = [r \in Runs |-> <<>>]
    /\ writeCount = 0
    /\ envToken = <<>>
    /\ dropboxClient = FALSE
    /\ envDropboxMapping = <<>>
    /\ envChannelMapping \in ChannelMappingEnvs
    /\ envChannel \in ChannelEnvs
    /\ cu = NoRequest
    /\ lib = NoCall
    /\ envAppSecret = <<>>
    /\ envSigningSecret = <<>>
    /\ web = NoHttp

\* The payloads a request can arrive with (one request is followed here).
Arriving == IF cu.pc = "idle" THEN Payloads ELSE {}

NextClickUp ==
    \/ \E payload \in Arriving : clickupHandler(payload)
    \/ \E spaceName \in SpaceNames : getTaskReturns(spaceName)
    \/ getTaskFails
    \/ notifyTaskCompletedReturns
    \/ notifyTaskCompletedFails

SpecClickUp == InitClickUp /\ [][NextClickUp]_vars

\* ------------------------------------------------------------ library calls
\* One call of an exported function of lib/dropbox.ts, with any argument,
\* under any configuration and any cursor stored by earlier runs; lib records
\* the call and its result.

\* Largest number of entries in a list the filters are called with.
MaxEntries == 2

EntryLists == UNION {[1..n -> LibEntries] : n \in 0..MaxEntries}

\* The cursors the one caller of setCursor passes: truthy feed positions.
Cursors == 0..MaxFeed

\* Values of DROPBOX_WATCHED_FOLDERS, here also "/B".
LibWatchedEnvs == WatchedEnvs \cup {<<"/", "B">>}

\* What the library calls leave alone.
libFrame == <<runLocals, envWatched, envCursor, envDropboxMapping, envChannelMapping,
              envChannel, cu, webVars>>

callGetChannelForPath(filePath) ==
    /\ lib.op = "none"
    /\ lib' = [op |-> "getChannelForPath", arg |-> filePath,
               ret |-> getChannelForPath(filePath)]
    /\ UNCHANGED <<libFrame, storedCursor>>

callFilterNewFiles(entries) ==
    /\ lib.op = "none"
    /\ lib' = [op |-> "filterNewFiles", arg |-> entries, ret |-> filterNewFiles(entries)]
    /\ UNCHANGED <<libFrame, storedCursor>>

\* Lines 88-93 of processDropboxChanges on one page of entries.
callRelevantFiles(entries) ==
    /\ lib.op = "none"
    /\ lib' = [op |-> "relevantFiles", arg |-> entries, ret |-> relevantFiles(entries)]
    /\ UNCHANGED <<libFrame, storedCursor>>

\* isInWatchedFolder(filePath, getWatchedFolders()), as the loop body of
\* processDropboxChanges calls it.
callIsInWatchedFolder(filePath) ==
    /\ lib.op = "none"
    /\ lib' = [op |-> "isInWatchedFolder", arg |-> filePath,
               ret |-> isInWatchedFolder(filePath, getWatchedFolders)]
    /\ UNCHANGED <<libFrame, storedCursor>>

\* setCursor(c), and getCursor() right after it.
callSetCursor(c) ==
    /\ lib.op = "none"
    /\ storedCursor' = setCursor(c)
    /\ UNCHANGED libFrame
    /\ lib' = [op |-> "setCursor", arg |-> c, before |-> storedCursor, ret |-> getCursor']

\* notifyAboutNewFile (api/webhooks/dropbox.ts lines 121-140) with the steps of
\* getSharedLink (lines 72-103). lib.pc is the call the function awaits ("list",
\* "create", "relist" inside getSharedLink, "send" for notifyFileUploaded) or
\* how its promise settled ("fulfilled", "rejected"); lib.sends lists the
\* notifyFileUploaded calls with their arguments.
Home == <<"https://www.dropbox.com/home">>
SharedUrl(path) == <<"https://www.dropbox.com/scl/fi">> \o path
ErrorSummaries == {"shared_link_already_exists/", "path/not_found/"}

notifyFrame == <<feed, pc, cursor, currentCursor, hasMore, newFiles, idx, resp, log,
                 writeCount, envToken, envWatched, envCursor, storedCursor,
                 envDropboxMapping, envChannelMapping, envChannel, cu, webVars>>

\* const channel = getChannelForPath(...); await notifyFileUploaded(file,
\* sharedLink, channel) (lines 133-137).
notifyFileUploaded(l, sharedLink) ==
    lib' = [l EXCEPT !.pc = "send",
                     !.sends = Append(@, [file |-> l.arg, sharedLink |-> sharedLink,
                                          channel |-> getChannelForPath(l.arg.path_display)])]

\* getSharedLink returns url (line 127).
getSharedLinkReturns(l, url) == notifyFileUploaded(l, url)

\* getSharedLinkThrows with the error leaving notifyAboutNewFile.
getSharedLinkThrows_rethrows(l) ==
    lib' = [l EXCEPT !.pc = "rejected", !.linkFailed = TRUE]

\* getSharedLink throws: the catch of lines 128-131 takes the home link.
getSharedLinkThrows(l) ==
    notifyFileUploaded([l EXCEPT !.linkFailed = TRUE], Home \o l.arg.path_display)

\* notifyAboutNewFile(file) up to its first await: getSharedLink calls
\* getDropboxClient, which throws without an access token, and then
\* sharingListSharedLinks.
callNotifyAboutNewFile(file) ==
    /\ lib.op = "none"
    /\ LET l == [op |-> "notifyAboutNewFile", arg |-> file, pc |-> "list",
                 linkFailed |-> FALSE, sends |-> <<>>, sent |-> "no"]
       IN IF ~dropboxClient /\ envToken = <<>>
          THEN getSharedLinkThrows(l) /\ UNCHANGED dropboxClient
          ELSE lib' = l /\ dropboxClient' = TRUE
    /\ UNCHANGED notifyFrame

\* sharingListSharedLinks returns, with a link of the file or with none
\* (lines 77-81 and, after shared_link_already_exists, lines 95-99).
sharingListSharedLinksReturns(found) ==
    /\ lib.op = "notifyAboutNewFile"
    /\ lib.pc \in {"list", "relist"}
    /\ IF found THEN getSharedLinkReturns(lib, SharedUrl(lib.arg.path_display))
       ELSE IF lib.pc = "list" THEN lib' = [lib EXCEPT !.pc = "create"]
       ELSE getSharedLinkThrows(lib)
    /\ UNCHANGED <<notifyFrame, dropboxClient>>

\* sharingListSharedLinks throws: inside the try the catch of line 92 looks
\* at the error summary, inside that catch the error leaves getSharedLink.
sharingListSharedLinksThrows(summary) ==
    /\ lib.op = "notifyAboutNewFile"
    /\ lib.pc \in {"list", "relist"}
    /\ IF lib.pc = "list" /\ summary = "shared_link_already_exists/"
       THEN lib' = [lib EXCEPT !.pc = "relist"]
       ELSE getSharedLinkThrows(lib)
    /\ UNCHANGED <<notifyFrame, dropboxClient>>

\* sharingCreateSharedLinkWithSettings returns the new link (lines 84-91).
sharingCreateSharedLinkWithSettingsReturns ==
    /\ lib.op = "notifyAboutNewFile"
    /\ lib.pc = "create"
    /\ getSharedLinkReturns(lib, SharedUrl(lib.arg.path_display))
    /\ UNCHANGED <<notifyFrame, dropboxClient>>

\* sharingCreateSharedLinkWithSettings throws (lines 92-102).
sharingCreateSharedLinkWithSettingsThrows(summary) ==
    /\ lib.op = "notifyAboutNewFile"
    /\ lib.pc = "create"
    /\ IF summary = "shared_link_already_exists/"
       THEN lib' = [lib EXCEPT !.pc = "relist"]
       ELSE getSharedLinkThrows(lib)
    /\ UNCHANGED <<notifyFrame, dropboxClient>>

\* await notifyFileUploaded returns: notifyAboutNewFile returns.
notifyFileUploadedReturns ==
    /\ lib.op = "notifyAboutNewFile"
    /\ lib.pc = "send"
    /\ lib' = [lib EXCEPT !.pc = "fulfilled", !.sent = "returned"]
    /\ UNCHANGED <<notifyFrame, dropboxClient>>

\* await notifyFileUploaded throws: the error leaves notifyAboutNewFile.
notifyFileUploadedThrows ==
    /\ lib.op = "notifyAboutNewFile"
    /\ lib.pc = "send"
    /\ lib' = [lib EXCEPT !.pc = "rejected", !.sent = "threw"]
    /\ UNCHANGED <<notifyFrame, dropboxClient>>

\* The module under any configuration, with no cursor stored yet or any
\* cursor an earlier run stored.
InitLib ==
    /\ feed = <<>>
    /\ envWatched \in LibWatchedEnvs
    /\ envCursor \in CursorEnvs
    /\ storedCursor \in {NoCursor} \cup Cursors
    /\ pc = [r \in Runs |-> "idle"]
    /\ cursor = [r \in Runs |-> NoCursor]
    /\ currentCursor = [r \in Runs |-> NoCursor]
    /\ hasMore = [r \in Runs |-> FALSE]
    /\ newFiles = [r \in Runs |-> <<>>]
    /\ idx = [r \in Runs |-> 0]
    /\ resp = [r \in Runs |-> <<>>]
    /\ log = [r \in Runs |-> <<>>]
    /\ writeCount = 0
    /\ envToken \in TokenEnvs
    /\ dropboxClient = FALSE
    /\ envDropboxMapping \in DropboxMappingEnvs
    /\ envChannelMapping = <<>>
    /\ envChannel \in ChannelEnvs
    /\ cu = NoRequest
    /\ lib = NoCall
    /\ envAppSecret = <<>>
    /\ envSigningSecret = <<>>
    /\ web = NoHttp

NextLib ==
    \/ \E filePath \in Paths : callGetChannelForPath(filePath)
    \/ \E entries \in EntryLists : callFilterNewFiles(entries)
    \/ \E entries \in EntryLists : callRelevantFiles(entries)
    \/ \E c \in Cursors : callSetCursor(c)
    \/ \E filePath \in Paths : callIsInWatchedFolder(filePath)
    \/ \E file \in {FileAx, FileBy} : callNotifyAboutNewFile(file)
    \/ \E found \in BOOLEAN : sharingListSharedLinksReturns(found)
    \/ \E summary \in ErrorSummaries : sharingListSharedLinksThrows(summary)
    \/ sharingCreateSharedLinkWithSettingsReturns
    \/ \E summary \in ErrorSummaries : sharingCreateSharedLinkWithSettingsThrows(summary)
    \/ notifyFileUploadedReturns
    \/ notifyFileUploadedThrows

SpecLib == InitLib /\ [][NextLib]_vars

\* ------------------------------------------------------------ HTTP endpoints
\* The request handlers of api/webhooks/dropbox.ts, api/slack/events.ts and
\* api/slack/commands.ts as seen from the HTTP client: one request is followed
\* from its arrival to the return of its handler. web.res lists the responses
\* the handler sends (its res.status(c).json / send calls), web.caught is <<>>
\* until the handler's catch block is entered and then <<the responses sent by
\* then>>, web.started tells whether processDropboxChanges was called (its
\* steps are the actions of the sync run above).

\* Number of characters of a hex digest.
DigestLen == 2

\* createHmac('sha256', secret).update(data).digest('hex'): a string of
\* DigestLen characters that the secret and the data determine.
createHmac(secret, data) ==
    [i \in 1..DigestLen |-> IF data[Len(data)] = "b1" THEN "a" ELSE "b"]

\* crypto.timingSafeEqual on the bytes of two strings: a RangeError when the
\* lengths differ, the comparison otherwise.
timingSafeEqual(a, b) ==
    IF Len(a) # Len(b) THEN "throws" ELSE IF a = b THEN "true" ELSE "false"

Bodies == {"b1", "b2"}
\* Header values: <<>> is an absent header, the others are strings of up to
\* DigestLen + 1 characters.
Signatures == UNION {[1..n -> {"a", "b"}] : n \in 0..(DigestLen + 1)}
V0 == <<"v", "0", "=">>
SlackSignatures == {<<>>} \cup {V0 \o sig : sig \in Signatures}

\* verifyDropboxSignature (lines 145-165).
verifyDropboxSignature(signature, body) ==
    IF envAppSecret = <<>> THEN "true"
    ELSE timingSafeEqual(signature, createHmac(envAppSecret[1], <<body>>))

\* verifySlackSignature (lib/slack.ts lines 419-448); Buffer.from(undefined)
\* is a TypeError.
verifySlackSignature(signature, timestamp, body) ==
    IF envSigningSecret = <<>> THEN "false"
    ELSE IF timestamp = "stale" THEN "false"
    ELSE IF signature = <<>> THEN "throws"
    ELSE timingSafeEqual(V0 \o createHmac(envSigningSecret[1], <<"v0", timestamp, body>>),
                         signature)

DropboxRequests ==
    [method : {"GET"}, challenge : {<<>>, <<"c">>}]
    \cup [method : {"PUT"}]
    \cup [method : {"POST"}, signature : Signatures, body : Bodies]

EventsRequests ==
    [method : {"GET"}]
    \cup [method : {"POST"}, type : {"url_verification", "other"}, event : BOOLEAN]
    \cup [method : {"POST"}, type : {"event_callback"}, event : BOOLEAN,
          signature : SlackSignatures, timestamp : {"fresh", "stale"}, body : Bodies]

\* A slash-command request; body FALSE is a request without a parsed body.
CommandsRequests ==
    [method : {"GET"}] \cup [method : {"POST"}, body : BOOLEAN]

Handling(endpoint, req, pcNew, res, caught, started) ==
    web' = [endpoint |-> endpoint, req |-> req, pc |-> pcNew, res |-> res,
            caught |-> caught, started |-> started]

webFrame == <<feed, envWatched, envCursor, storedCursor, pc, cursor, currentCursor,
              hasMore, newFiles, idx, resp, log, writeCount, envToken, dropboxClient,
              envDropboxMapping, envChannelMapping, envChannel, cu, lib,
              envAppSecret, envSigningSecret>>

\* handler of api/webhooks/dropbox.ts (lines 22-69) up to its await: the
\* challenge of a GET, 405 for other methods, and for a POST the signature
\* check, the 200 and the call of processDropboxChanges. An exception of
\* verifyDropboxSignature is caught by the catch of lines 65-68, which logs.
webhookHandler(req) ==
    /\ web.pc = "idle"
    /\ IF req.method = "GET"
       THEN Handling("dropbox", req, "done",
                     IF req.challenge # <<>> THEN <<200>> ELSE <<400>>, <<>>, FALSE)
       ELSE IF req.method # "POST"
       THEN Handling("dropbox", req, "done", <<405>>, <<>>, FALSE)
       ELSE LET verified == IF req.signature # <<>>
                            THEN verifyDropboxSignature(req.signature, req.body)
                            ELSE "true"
            IN IF verified = "throws"
               THEN Handling("dropbox", req, "done", <<>>, <<(<<>>)>>, FALSE)
               ELSE IF verified = "false"
               THEN Handling("dropbox", req, "done", <<401>>, <<>>, FALSE)
               ELSE Handling("dropbox", req, "processing", <<200>>, <<>>, TRUE)
    /\ UNCHANGED webFrame

\* await processDropboxChanges() returns: the handler returns.
processDropboxChangesReturns ==
    /\ web.endpoint = "dropbox"
    /\ web.pc = "processing"
    /\ web' = [web EXCEPT !.pc = "done"]
    /\ UNCHANGED webFrame

\* await processDropboxChanges() throws: the catch logs and sends nothing.
processDropboxChangesThrows ==
    /\ web.endpoint = "dropbox"
    /\ web.pc = "processing"
    /\ web' = [web EXCEPT !.pc = "done", !.caught = <<web.res>>]
    /\ UNCHANGED webFrame

\* handler of api/slack/events.ts (lines 28-71) up to its await.
eventsHandler(req) ==
    /\ web.pc = "idle"
    /\ IF req.method # "POST"
       THEN Handling("events", req, "done", <<405>>, <<>>, FALSE)
       ELSE IF req.type = "url_verification"
       THEN Handling("events", req, "done", <<200>>, <<>>, FALSE)
       ELSE LET verified == IF req.type = "event_callback"
                            THEN verifySlackSignature(req.signature, req.timestamp, req.body)
                            ELSE "true"
            IN IF verified = "throws"
               THEN Handling("events", req, "done", <<500>>, <<(<<>>)>>, FALSE)
               ELSE IF verified = "false"
               THEN Handling("events", req, "done", <<401>>, <<>>, FALSE)
               ELSE IF req.event
               THEN Handling("events", req, "processing", <<200>>, <<>>, FALSE)
               ELSE Handling("events", req, "done", <<200>>, <<>>, FALSE)
    /\ UNCHANGED webFrame

\* await handleEvent(payload.event) returns.
handleEventReturns ==
    /\ web.endpoint = "events"
    /\ web.pc = "processing"
    /\ web' = [web EXCEPT !.pc = "done"]
    /\ UNCHANGED webFrame

\* await handleEvent(payload.event) throws (a postMessage failed): the catch
\* of lines 67-70 logs and sends the 500.
handleEventThrows ==
    /\ web.endpoint = "events"
    /\ web.pc = "processing"
    /\ web' = [web EXCEPT !.pc = "done", !.caught = <<web.res>>,
                          !.res = Append(@, 500)]
    /\ UNCHANGED webFrame

\* handler of api/slack/commands.ts (lines 27-52) up to its await; taking
\* the fields of an undefined body is a TypeError inside the try.
commandsHandler(req) ==
    /\ web.pc = "idle"
    /\ IF req.method # "POST"
       THEN Handling("commands", req, "done", <<405>>, <<>>, FALSE)
       ELSE IF ~req.body
       THEN Handling("commands", req, "done", <<500>>, <<(<<>>)>>, FALSE)
       ELSE Handling("commands", req, "processing", <<200>>, <<>>, FALSE)
    /\ UNCHANGED webFrame

\* await handleCommand(...) returns.
handleCommandReturns ==
    /\ web.endpoint = "commands"
    /\ web.pc = "processing"
    /\ web' = [web EXCEPT !.pc = "done"]
    /\ UNCHANGED webFrame

\* await handleCommand(...) throws (the sendError of a command's own catch
\* failed, or that of the default branch): the catch of lines 48-51 logs and
\* sends the 500.
handleCommandThrows ==
    /\ web.endpoint = "commands"
    /\ web.pc = "processing"
    /\ web' = [web EXCEPT !.pc = "done", !.caught = <<web.res>>,
                          !.res = Append(@, 500)]
    /\ UNCHANGED webFrame

\* Any configuration of the two secrets; no request has arrived.
InitWeb ==
    /\ feed = <<>>
    /\ envWatched = <<>>
    /\ envCursor = NoCursor
    /\ storedCursor = NoCursor
    /\ pc = [r \in Runs |-> "idle"]
    /\ cursor = [r \in Runs |-> NoCursor]
    /\ currentCursor = [r \in Runs |-> NoCursor]
    /\ hasMore = [r \in Runs |-> FALSE]
    /\ newFiles = [r \in Runs |-> <<>>]
    /\ idx = [r \in Runs |-> 0]
    /\ resp = [r \in Runs |-> <<>>]
    /\ log = [r \in Runs |-> <<>>]
    /\ writeCount = 0
    /\ envToken = <<>>
    /\ dropboxClient = FALSE
    /\ envDropboxMapping = <<>>
    /\ envChannelMapping = <<>>
    /\ envChannel = <<>>
    /\ cu = NoRequest
    /\ lib = NoCall
    /\ envAppSecret \in {<<>>, <<"k">>}
    /\ envSigningSecret \in {<<>>, <<"k">>}
    /\ web = NoHttp

\* The requests that can arrive (one request is followed here).
ArrivingAt(requests) == IF web.pc = "idle" THEN requests ELSE {}

NextWeb ==
    \/ \E req \in ArrivingAt(DropboxRequests) : webhookHandler(req)
    \/ processDropboxChangesReturns
    \/ processDropboxChangesThrows
    \/ \E req \in ArrivingAt(EventsRequests) : eventsHandler(req)
    \/ handleEventReturns
    \/ handleEventThrows
    \/ \E req \in ArrivingAt(CommandsRequests) : commandsHandler(req)
    \/ handleCommandReturns
    \/ handleCommandThrows

SpecWeb == InitWeb /\ [][NextWeb]_vars

\* ------------------------------------------------------------ reading the history
\* The positions of run r's events of one kind, and the events themselves.
At(r, kind) == {p \in 1..Len(log[r]) : log[r][p].ev = kind}
Events(r, kind) == SelectSeq(log[r], LAMBDA e : e.ev = kind)
Aborted(r) == At(r, "fetchError") # {}

\* ------------------------------------------------------------ claims

\* C1: a run that a failed page fetch aborts never reaches setCursor: it has
\* saved no cursor, and when no other run saved one in the meantime the
\* stored cursor at the abort is the stored cursor the run started with.
C1_FetchErrorKeepsCursor ==
    \A r \in Runs :
        Aborted(r) =>
            LET start == log[r][1]
                abort == log[r][Len(log[r])]
            IN /\ pc[r] = "failed"
               /\ abort.ev = "fetchError"
               /\ At(r, "setCursor") = {}
               /\ abort.writes = start.writes => abort.stored = start.stored

\* C1 witness: a run aborted at its second page, after the first page moved
\* its currentCursor, with the stored cursor as it was at the start.
C1_Witness ==
    \E r \in Runs :
        /\ pc[r] = "failed"
        /\ Len(Events(r, "page")) = 1
        /\ currentCursor[r] # cursor[r]
        /\ log[r][Len(log[r])].stored = log[r][1].stored

\* C2 (as claimed): the stored cursor is monotonic: once it holds a feed
\* position, no step replaces it by an earlier feed position.
C2_CursorMonotonic ==
    [][Truthy(storedCursor) => storedCursor' >= storedCursor]_vars

\* C3 (as claimed): runs are not re-entrant: at no time are two runs both
\* between their cursor read and the end of their page fetches.
C3_NotReentrant ==
    Cardinality({r \in Runs : pc[r] = "fetching"}) <= 1

\* The key that identifies a logical change: id and modification time.
SameChange(e, f) == e.id = f.id /\ e.server_modified = f.server_modified

\* C4 (as claimed): a file entry that two pages of one run report (same id,
\* same modification time) yields exactly one candidate of that run.
C4_OneCandidatePerEntry ==
    \A r \in Runs :
        \A p, q \in At(r, "page") :
            \A e \in Entries :
                ( /\ p < q
                  /\ e.tag = "file"
                  /\ \E k \in 1..Len(log[r][p].entries) : log[r][p].entries[k] = e
                  /\ \E k \in 1..Len(log[r][q].entries) : SameChange(log[r][q].entries[k], e)
                  /\ \E k \in 1..Len(newFiles[r]) : newFiles[r][k] = e )
                => Cardinality({k \in 1..Len(newFiles[r]) : SameChange(newFiles[r][k], e)}) = 1

\* The entries that pass both filters of the loop body: a file, inside a
\* watched folder when watched folders are configured.
PassesFilter(e) ==
    /\ e.tag = "file"
    /\ getWatchedFolders # <<>> => isInWatchedFolder(e.path_display, getWatchedFolders)

\* The files run r has called notifyAboutNewFile for, in call order.
Attempted(r) == [k \in 1..Len(Events(r, "notify")) |-> Events(r, "notify")[k].file]

\* C5: a failed dispatch neither aborts the run nor stops the for..of loop:
\* the event after a notifyError is the dispatch attempt for the next
\* candidate, or there is no next candidate and the run is done; a run that
\* is done has attempted every candidate of its list, in order.
C5_DispatchFailureIsNotFatal ==
    \A r \in Runs :
        /\ \A p \in At(r, "notifyError") :
              LET k == Cardinality({q \in At(r, "notify") : q < p}) IN
              /\ log[r][p].file = newFiles[r][k]
              /\ IF k < Len(newFiles[r])
                 THEN /\ p < Len(log[r])
                      /\ log[r][p + 1] = Notify(newFiles[r][k + 1])
                 ELSE p = Len(log[r]) /\ pc[r] = "done"
        /\ pc[r] = "done" => Attempted(r) = newFiles[r]
        /\ At(r, "notify") # {} => pc[r] \in {"notifying", "done"}

\* C5 witness: a finished run whose first dispatch failed and whose second
\* dispatch was attempted and delivered.
C5_Witness ==
    \E r \in Runs :
        /\ pc[r] = "done"
        /\ Len(newFiles[r]) = 2
        /\ \E p \in At(r, "notifyError") : \E q \in At(r, "notified") : p < q

StartCursor(r) ==
    IF Truthy(log[r][1].stored) THEN log[r][1].stored ELSE envCursor

\* C7: the first fetch uses the cursor loaded at run start, every later
\* fetch uses the cursor the page before it returned, a page is followed by
\* another fetch exactly when it reported hasMore, and the run leaves the
\* fetch loop only at a page with hasMore = false.
C7_Pagination ==
    \A r \in Runs :
        log[r] # <<>> =>
            /\ log[r][1].ev = "start"
            /\ log[r][2] = Fetch(StartCursor(r))
            /\ \A p \in At(r, "fetch") :
                  p > 2 => /\ log[r][p - 1].ev = "page"
                           /\ log[r][p - 1].hasMore
                           /\ log[r][p].arg = log[r][p - 1].cursor
            /\ \A p \in At(r, "page") :
                  /\ log[r][p - 1].ev = "fetch"
                  /\ log[r][p].hasMore <=> (p < Len(log[r]) /\ log[r][p + 1].ev = "fetch")
                  /\ ~log[r][p].hasMore => \A q \in At(r, "fetch") : q < p
            /\ pc[r] \in {"notifying", "done"} <=>
                  \E p \in At(r, "page") : ~log[r][p].hasMore

\* C7 witness: a finished run of two pages whose second fetch was made with
\* the cursor of the first page, which differs from the one it started with.
C7_Witness ==
    \E r \in Runs :
        /\ pc[r] = "done"
        /\ Len(Events(r, "page")) = 2
        /\ Events(r, "fetch")[2].arg = Events(r, "page")[1].cursor
        /\ Events(r, "fetch")[2].arg # Events(r, "fetch")[1].arg

\* The number of times the pages run r fetched report entry e, and the
\* number of dispatch attempts of run r for e.
Reported(r, e) ==
    Cardinality({pk \in At(r, "page") \X (1..MaxFeed) :
                    /\ pk[2] <= Len(log[r][pk[1]].entries)
                    /\ log[r][pk[1]].entries[pk[2]] = e})
Attempts(r, e) == Cardinality({q \in At(r, "notify") : log[r][q].file = e})

\* C8: in a run whose fetches all succeeded no entry is lost between pages:
\* every file entry that passes the watched-folder filter has one dispatch
\* attempt for each time a page reported it, whichever page that was, and no
\* other entry has any.
C8_NoEntryLost ==
    \A r \in Runs :
        pc[r] = "done" =>
            \A e \in Entries :
                Attempts(r, e) = IF PassesFilter(e) THEN Reported(r, e) ELSE 0

\* C8 witness: a finished run of two pages, each of which reported a file
\* that passes the filter, with watched folders configured.
C8_Witness ==
    \E r \in Runs :
        /\ pc[r] = "done"
        /\ getWatchedFolders # <<>>
        /\ Len(Events(r, "page")) = 2
        /\ \A k \in 1..2 :
              /\ Events(r, "page")[k].entries # <<>>
              /\ PassesFilter(Events(r, "page")[k].entries[1])
        /\ Len(Attempted(r)) = 2

\* C9: an aborted run and any other run never both attempt a notification
\* for the same file entry: re-triggering after a fetch error repeats none.
C9_RetryRepeatsNothing ==
    \A r1, r2 \in Runs :
        (r1 # r2 /\ Aborted(r1)) =>
            \A e \in Entries : ~(Attempts(r1, e) > 0 /\ Attempts(r2, e) > 0)

\* C9 witness: a run aborted at its second page, after a first page that
\* reported a file passing the filter; a later run started from the same
\* cursor, against the same feed, finished and delivered that file.
C9_Witness ==
    \E r1, r2 \in Runs :
        /\ r1 < r2
        /\ pc[r1] = "failed"
        /\ pc[r2] = "done"
        /\ cursor[r2] = cursor[r1]
        /\ Len(Events(r1, "page")) = 1
        /\ Events(r2, "page")[1] = Events(r1, "page")[1]
        /\ \E e \in Entries :
              /\ PassesFilter(e)
              /\ Reported(r1, e) > 0
              /\ \E q \in At(r2, "notified") : log[r2][q].file = e

\* Every save of the cursor by run r is the save of the cursor of the page
\* with hasMore = false, made right after that page; there is at most one.
SavesOnlyLastCursor(r) ==
    /\ Cardinality(At(r, "setCursor")) <= 1
    /\ \A p \in At(r, "setCursor") :
          /\ p > 1
          /\ log[r][p - 1].ev = "page"
          /\ ~log[r][p - 1].hasMore
          /\ log[r][p].cursor = log[r][p - 1].cursor

\* C10: the stored cursor changes only in the step in which a run leaves its
\* fetch loop, to the cursor of the page that ended the loop; waiting for a
\* page, filtering and dispatching leave it alone, and a run saves at most
\* once.
C10_CursorFrame ==
    /\ [](\A r \in Runs : SavesOnlyLastCursor(r))
    /\ [][storedCursor' # storedCursor =>
            \E r \in Runs :
                /\ pc[r] = "fetching" /\ pc'[r] \in {"notifying", "done"}
                /\ resp[r] # <<>>
                /\ ~resp[r][1].hasMore
                /\ storedCursor' = resp[r][1].cursor
                /\ At(r, "setCursor") = {}]_vars

\* C10 witness: a finished run of two pages that has saved the cursor once:
\* the stored cursor is the cursor of its second page and no longer the one
\* the run started with.
C10_Witness ==
    \E r \in Runs :
        /\ pc[r] = "done"
        /\ Len(Events(r, "page")) = 2
        /\ Len(Events(r, "setCursor")) = 1
        /\ storedCursor = Events(r, "page")[2].cursor
        /\ storedCursor # log[r][1].stored

\* C18: within a run the dispatch attempts go through the run's candidate
\* list once, position by position: there are never more attempts than
\* candidates, and a failed send is logged and followed by the next
\* candidate's attempt or the end of the run, never by a second attempt.
C18_OneAttemptPerCandidate ==
    \A r \in Runs :
        LET attempts == Events(r, "notify") IN
        /\ Len(attempts) <= Len(newFiles[r])
        /\ \A k \in 1..Len(attempts) : attempts[k].file = newFiles[r][k]
        /\ \A p \in 1..Len(log[r]) :
              log[r][p].ev = "notifyError" =>
                  /\ log[r][p - 1] = Notify(log[r][p].file)
                  /\ p < Len(log[r]) => log[r][p + 1].ev = "notify"

\* C18 happens: the send for the first of two candidates failed, the run went
\* on and ended with one attempt for each.
C18_Witness ==
    \E r \in Runs :
        /\ pc[r] = "done"
        /\ Len(newFiles[r]) = 2
        /\ Len(Attempted(r)) = 2
        /\ Events(r, "notifyError") = <<NotifyError(newFiles[r][1])>>

\* The numbers of entries run r fetched, of candidates it classified, and of
\* its dispatches that succeeded and failed.
RECURSIVE Fetched(_)
Fetched(pages) == IF pages = <<>> THEN 0 ELSE Len(Head(pages).entries) + Fetched(Tail(pages))

Counts(r) ==
    [fetched    |-> Fetched(Events(r, "page")),
     classified |-> Len(newFiles[r]),
     dispatched |-> Len(Events(r, "notified")),
     failed     |-> Len(Events(r, "notifyError"))]

\* C19: a run that has ended has returned or logged the four counts
\* fetched, classified, dispatched and failed of that run.
C19_RunSummary ==
    \A r \in Runs :
        pc[r] = "done" =>
            \A name \in {"fetched", "classified", "dispatched", "failed"} :
                /\ name \in DOMAIN reports(r)
                /\ reports(r)[name] = Counts(r)[name]

\* C20: without DROPBOX_ACCESS_TOKEN every run aborts at its first fetch: it
\* gets no page, saves no cursor and dispatches nothing, and the stored cursor
\* stays what it was.
C20_ConfigErrorIsFatal ==
    envToken = <<>> =>
        /\ storedCursor = NoCursor
        /\ writeCount = 0
        /\ \A r \in Runs :
              /\ pc[r] \in {"idle", "failed"}
              /\ pc[r] = "failed" =>
                    /\ Len(Events(r, "fetch")) = 1
                    /\ log[r][Len(log[r])].ev = "fetchError"
                    /\ log[r][1].stored = storedCursor
                    /\ At(r, "page") = {} /\ At(r, "setCursor") = {} /\ At(r, "notify") = {}

\* C20 happens: without a token a run was started, over a feed with a file to
\* report, and has aborted.
C20_Witness ==
    /\ envToken = <<>>
    /\ pc[1] = "failed"
    /\ \E k \in 1..Len(feed) : feed[k].tag = "file"

\* C21: the first fetch of a run is a fresh recursive listing exactly when no
\* cursor is stored and none is configured, and otherwise continues from the
\* stored cursor or, without one, the configured cursor; every later fetch of
\* the run is a continuation.
C21_FreshListingOnlyWithoutCursor ==
    \A r \in Runs :
        log[r] # <<>> =>
            LET fetches == Events(r, "fetch")
                stored == log[r][1].stored
                available == IF Truthy(stored) THEN stored ELSE envCursor
            IN /\ fetches[1].api = "filesListFolder" <=> ~Truthy(available)
               /\ Truthy(available) => fetches[1].arg = available
               /\ \A k \in 2..Len(fetches) : fetches[k].api = "filesListFolderContinue"

\* C21 happens: a run without any cursor started with a fresh listing and
\* fetched a second page by continuation.
C21_Witness ==
    \E r \in Runs :
        /\ Len(Events(r, "fetch")) = 2
        /\ Events(r, "fetch")[1].api = "filesListFolder"
        /\ Events(r, "fetch")[2].api = "filesListFolderContinue"

\* The files of the pages run r has received that pass the filters, in page
\* order and, within a page, in entry order.
RECURSIVE Flatten(_)
Flatten(pages) ==
    IF pages = <<>> THEN <<>> ELSE relevantFiles(Head(pages).entries) \o Flatten(Tail(pages))

\* C29: the dispatch attempts of a run follow the order in which the entries
\* were fetched, no attempt starts before the page with hasMore = false has
\* arrived (no fetch and no page follows an attempt), and an attempt has
\* finished, in success or failure, before the next one starts.
C29_SequentialInFeedOrder ==
    \A r \in Runs :
        LET lg == log[r]
            pages == Events(r, "page")
            attempts == Events(r, "notify")
            inOrder == Flatten(pages)
        IN /\ Len(attempts) <= Len(inOrder)
           /\ \A k \in 1..Len(attempts) : attempts[k].file = inOrder[k]
           /\ attempts # <<>> => ~pages[Len(pages)].hasMore
           /\ \A p \in 1..Len(lg) :
                 lg[p].ev = "notify" =>
                     /\ \A q \in (p + 1)..Len(lg) : lg[q].ev \notin {"fetch", "page"}
                     /\ p < Len(lg) => /\ lg[p + 1].ev \in {"notified", "notifyError"}
                                       /\ lg[p + 1].file = lg[p].file

\* C29 happens: the files of two pages were attempted, the first page's file
\* first, and the second attempt started after the first had failed.
C29_Witness ==
    \E r \in Runs :
        /\ pc[r] = "done"
        /\ Len(Events(r, "page")) = 2
        /\ Attempted(r) = <<FileAx, FileBy>>
        /\ Events(r, "page")[1].entries = <<FileAx>>
        /\ Events(r, "notifyError") = <<NotifyError(FileAx)>>

\* Run r has ended normally: its fetch loop ended at a page with hasMore =
\* false, it saved that page's cursor and it is out of the dispatch loop.
Terminated(r) ==
    LET pages == Events(r, "page")
        saved == Events(r, "setCursor")
    IN /\ pc[r] = "done"
       /\ pages # <<>>
       /\ ~pages[Len(pages)].hasMore
       /\ saved = <<SetCursor(pages[Len(pages)].cursor)>>
       /\ Len(Events(r, "notify")) = Len(newFiles[r])

\* C22: when every call returns, every run in progress returns (again and
\* again no run is fetching or dispatching, and a run never resumes), and a
\* run that has returned has ended normally: it received the page with
\* hasMore = false, saved that page's cursor and left the dispatch loop after
\* one attempt per candidate. The one run that ends otherwise is the run that
\* could make no call at all for want of an access token.
C22_RunsTerminate ==
    /\ []<>(\A r \in Runs : pc[r] \notin {"fetching", "notifying"})
    /\ [](\A r \in Runs : /\ pc[r] = "done" => Terminated(r)
                          /\ pc[r] = "failed" => envToken = <<>>)

\* C22 happens: a run has ended normally after two pages and a failed send.
C22_Witness ==
    \E r \in Runs :
        /\ Terminated(r)
        /\ Len(Events(r, "page")) = 2
        /\ Events(r, "notifyError") # <<>>

\* ------------------------------------------------------------ HTTP claims

\* C23: a POST to the Dropbox webhook handler has received exactly one
\* response when the handler returns, and when the catch block was entered
\* the 200 had been sent before.
C23_OneResponseAckBeforeCatch ==
    (web.endpoint = "dropbox" /\ web.req.method = "POST" /\ web.pc = "done") =>
        /\ Len(web.res) = 1
        /\ web.caught # <<>> => web.caught[1] = <<200>>

\* C24: a POST to the Dropbox webhook handler whose signature header is not
\* the HMAC of its body under the configured app secret starts no sync run and
\* is answered with 401.
C24_BadSignatureRejected ==
    (/\ web.endpoint = "dropbox"
     /\ web.req.method = "POST"
     /\ envAppSecret # <<>>
     /\ web.req.signature # <<>>
     /\ web.req.signature # createHmac(envAppSecret[1], <<web.req.body>>)) =>
        /\ ~web.started
        /\ web.pc = "done"
        /\ web.res = <<401>>

\* C25: the Slack events handler and the slash-command handler have sent
\* exactly one response when they return, whether or not the processing after
\* the 200 failed.
C25_SlackOneResponse ==
    (web.endpoint \in {"events", "commands"} /\ web.pc = "done") => Len(web.res) = 1

\* ------------------------------------------------------------ ClickUp claims
\* The events of one kind in the ClickUp request's history.
CuEvents(kind) == SelectSeq(cu.log, LAMBDA e : e.ev = kind)

\* A status change from a status that is not of type closed (or from no
\* status) to a status of type closed.
Completion(item) ==
    /\ item.after # <<>>
    /\ item.after[1].type = "closed"
    /\ item.before = <<>> \/ item.before[1].type # "closed"

\* C11: for a taskStatusUpdated event the handler goes on to notify exactly
\* when the status change it reports (its first status history item) leads
\* from a status that is not closed to a closed one: then there is exactly one
\* candidate, and one notifyTaskCompleted call once the task is fetched;
\* otherwise (closed to closed, open to in progress, no status item) there is
\* no candidate and no call.
C11_CompletionOnly ==
    (cu.pc # "idle" /\ cu.payload.event = "taskStatusUpdated") =>
        LET items == cu.payload.history_items
            S == {k \in 1..Len(items) : items[k].field = "status"}
            completes == S # {} /\ Completion(items[CHOOSE k \in S : \A j \in S : k <= j])
            candidates == Len(CuEvents("candidate"))
            calls == Len(CuEvents("notifyTaskCompleted"))
        IN /\ candidates = (IF completes THEN 1 ELSE 0)
           /\ calls <= candidates
           /\ (cu.pc \in {"notifying", "done"} /\ completes) => calls = 1

\* C11 happens: an open -> closed event was handled and its one notification
\* was posted.
C11_Witness ==
    /\ cu.pc = "done"
    /\ cu.payload.event = "taskStatusUpdated"
    /\ cu.payload.history_items =
          <<[field |-> "status", before |-> <<Open>>, after |-> <<Closed>>]>>
    /\ Len(CuEvents("candidate")) = 1
    /\ Len(CuEvents("posted")) = 1

\* C27: a taskStatusUpdated event whose status history item has no previous
\* status and a new status of type closed is a completion: it is the one
\* candidate, and it is notified once the task is fetched. An event without
\* a status history item, or whose item has no new status, is skipped: no
\* candidate, no getTask, no notification.
C27_NullBeforeIsCompletion ==
    (cu.pc # "idle" /\ cu.payload.event = "taskStatusUpdated") =>
        LET statusChange == find(cu.payload.history_items, "status") IN
        /\ (/\ statusChange # <<>>
            /\ statusChange[1].before = <<>>
            /\ statusChange[1].after # <<>>
            /\ statusChange[1].after[1].type = "closed") =>
               /\ CuEvents("candidate") = <<Candidate(statusChange[1])>>
               /\ cu.pc \in {"notifying", "done"} => Len(CuEvents("notifyTaskCompleted")) = 1
               /\ cu.pc = "done" => Len(CuEvents("posted")) = 1
        /\ (statusChange = <<>> \/ statusChange[1].after = <<>>) =>
               /\ cu.pc = "done"
               /\ cu.log = <<Skipped("no status change")>>

\* C27 happens: an event from no status to a closed one was handled and its
\* notification was posted.
C27_Witness ==
    /\ cu.pc = "done"
    /\ cu.payload.event = "taskStatusUpdated"
    /\ cu.payload.history_items =
          <<[field |-> "status", before |-> <<>>, after |-> <<Closed>>]>>
    /\ Len(CuEvents("posted")) = 1

\* C14: a completed task is posted to the channel of a CHANNEL_MAPPING rule
\* whose space name equals the task's space name up to letter case, whenever
\* there is such a rule (and not to the default channel).
C14_SpaceMatchIgnoresCase ==
    \A k \in 1..Len(cu.log) :
        cu.log[k].ev = "notifyTaskCompleted" =>
            LET rules == getChannelMapping
                matching == {j \in 1..Len(rules) :
                                toLowerCase(rules[j].key) = toLowerCase(cu.log[k].space)}
            IN matching # {} => \E j \in matching : cu.log[k].channel = rules[j].value

\* ------------------------------------------------------------ library claims
\* The rules DROPBOX_CHANNEL_MAPPING configures, in configuration order: the
\* pairs "folder:channel" with a non-empty folder and channel.
RECURSIVE RulesOf(_)
RulesOf(pairs) ==
    IF pairs = <<>> THEN <<>>
    ELSE LET pair == Head(pairs)
             colon == lastIndexOf(pair, ":")
             folder == trim(SubSeq(pair, 1, colon - 1))
             channel == trim(SubSeq(pair, colon + 1, Len(pair)))
         IN (IF colon > 1 /\ folder # <<>> /\ channel # <<>>
             THEN <<[matchPrefix |-> folder, channel |-> channel]>> ELSE <<>>)
            \o RulesOf(Tail(pairs))

ConfiguredRules ==
    IF envDropboxMapping = <<>> THEN <<>> ELSE RulesOf(split(envDropboxMapping, ","))

DefaultChannel == IF envChannel # <<>> THEN envChannel ELSE AllMedia

\* The rules whose matchPrefix is a case-insensitive prefix of the path, and
\* those of them with the longest matchPrefix.
Matching(path) ==
    {k \in 1..Len(ConfiguredRules) :
        startsWith(toLowerCase(path), toLowerCase(ConfiguredRules[k].matchPrefix))}
Longest(path) ==
    {k \in Matching(path) :
        \A j \in Matching(path) :
            Len(ConfiguredRules[j].matchPrefix) <= Len(ConfiguredRules[k].matchPrefix)}

\* C12: getChannelForPath returns the channel of a rule with the longest
\* matchPrefix that is a case-insensitive prefix of the path, and the default
\* channel when no rule matches.
C12_LongestPrefixWins ==
    lib.op = "getChannelForPath" =>
        IF Matching(lib.arg) = {} THEN lib.ret = DefaultChannel
        ELSE \E k \in Longest(lib.arg) : lib.ret = ConfiguredRules[k].channel

\* C12 happens: with "/A/b:p,/a:q" the path "/a/B/x" matches both rules and
\* went to the channel of the longer one.
C12_Witness ==
    /\ envDropboxMapping = <<"/", "A", "/", "b", ":", "p", ",", "/", "a", ":", "q">>
    /\ lib = [op |-> "getChannelForPath", arg |-> PathaBx, ret |-> <<"p">>]

\* C13: when several rules match with the longest matchPrefix, the first of
\* them in the configuration determines the channel.
C13_FirstRuleWinsTies ==
    (lib.op = "getChannelForPath" /\ Matching(lib.arg) # {}) =>
        LET first == CHOOSE k \in Longest(lib.arg) : \A j \in Longest(lib.arg) : k <= j
        IN lib.ret = ConfiguredRules[first].channel

\* The prefixes DROPBOX_WATCHED_FOLDERS configures.
ConfiguredPrefixes ==
    IF envWatched = <<>> THEN {}
    ELSE LET pieces == split(envWatched, ",")
         IN {trim(pieces[k]) : k \in 1..Len(pieces)} \ {<<>>}

Allowed(e) ==
    \/ ConfiguredPrefixes = {}
    \/ \E prefix \in ConfiguredPrefixes :
          startsWith(toLowerCase(e.path_display), toLowerCase(prefix))

\* C15: of the entries of a page, the file entries that become candidates are
\* those whose path starts, case-insensitively, with a configured prefix, and
\* all file entries when no prefix is configured.
C15_WatchedFolders ==
    lib.op = "relevantFiles" =>
        lib.ret = SelectSeq(lib.arg, LAMBDA e : e.tag = "file" /\ Allowed(e))

\* C15 happens: with the allow-list ["/B"] the file "/b/y" passed and the
\* file "/A/x" was dropped.
C15_Witness ==
    /\ envWatched = <<"/", "B">>
    /\ lib = [op |-> "relevantFiles", arg |-> <<FileAx, FileBy>>, ret |-> <<FileBy>>]

\* The entries of a list that are tagged file, in the list's order.
RECURSIVE OnlyFiles(_)
OnlyFiles(entries) ==
    IF entries = <<>> THEN <<>>
    ELSE IF Head(entries).tag = "file" THEN <<Head(entries)>> \o OnlyFiles(Tail(entries))
    ELSE OnlyFiles(Tail(entries))

\* C16: filterNewFiles returns exactly the entries tagged file, in their
\* order, and no folder or deletion is among the candidates of a page.
C16_FilesOnly ==
    /\ lib.op = "filterNewFiles" => lib.ret = OnlyFiles(lib.arg)
    /\ lib.op = "relevantFiles" =>
           \A k \in 1..Len(lib.ret) : lib.ret[k].tag \notin {"folder", "deleted"}

\* C16 happens: a deletion and a file were filtered, the file is what is left.
C16_Witness ==
    lib = [op |-> "filterNewFiles", arg |-> <<DeletedBy, FileAx>>, ret |-> <<FileAx>>]

\* C17: getCursor() right after setCursor(C) returns C.
C17_LoadAfterSave ==
    lib.op = "setCursor" => lib.ret = lib.arg

\* C17 happens: C was saved over another stored cursor, with yet another
\* cursor configured in DROPBOX_CURSOR.
C17_Witness ==
    /\ lib.op = "setCursor"
    /\ Truthy(lib.before) /\ lib.before # lib.arg
    /\ Truthy(envCursor) /\ envCursor # lib.arg
    /\ lib.ret = lib.arg

\* C26: when getSharedLink failed, notifyAboutNewFile has made exactly one
\* send, for the file, with the link https://www.dropbox.com/home + path and
\* to the channel the route rules resolve the path to; and notifyAboutNewFile
\* fails only when that send itself failed.
C26_LinkFailureStillNotifies ==
    lib.op = "notifyAboutNewFile" =>
        /\ lib.linkFailed =>
              lib.sends = <<[file |-> lib.arg,
                             sharedLink |-> Home \o lib.arg.path_display,
                             channel |-> getChannelForPath(lib.arg.path_display)]>>
        /\ lib.pc = "rejected" => (Len(lib.sends) = 1 /\ lib.sent = "threw")
        /\ lib.pc = "fulfilled" => (Len(lib.sends) = 1 /\ lib.sent = "returned")

\* C26 happens: creating the link failed after the listing found none, and
\* the notification went out with the home link.
C26_Witness ==
    /\ lib.op = "notifyAboutNewFile"
    /\ dropboxClient
    /\ lib.linkFailed
    /\ lib.pc = "fulfilled"
    /\ lib.sends[1].sharedLink = Home \o PathAx

\* prefix is a prefix of path, letter case aside, character by character;
\* where in a path segment the prefix ends plays no part.
RawPrefix(path, prefix) ==
    /\ Len(prefix) <= Len(path)
    /\ \A i \in 1..Len(prefix) : Lower(path[i]) = Lower(prefix[i])

\* C28: a path is in a watched folder exactly when some configured prefix is a
\* raw prefix of it, and it is routed by a rule exactly when some rule's
\* matchPrefix is a raw prefix of it (to the channel of such a rule, and to the
\* default channel otherwise); "/a" matches "/Ab/x".
C28_RawPrefixMatch ==
    /\ lib.op = "isInWatchedFolder" =>
          (lib.ret <=> \E prefix \in ConfiguredPrefixes : RawPrefix(lib.arg, prefix))
    /\ lib.op = "getChannelForPath" =>
          LET raw == {k \in 1..Len(ConfiguredRules) :
                         RawPrefix(lib.arg, ConfiguredRules[k].matchPrefix)}
          IN IF raw = {} THEN lib.ret = DefaultChannel
             ELSE \E k \in raw : lib.ret = ConfiguredRules[k].channel

\* C28 happens: with the allow-list ["/a"] the path "/Ab/x" was found to be in
\* a watched folder.
C28_Witness ==
    /\ envWatched = <<" ", "/", "a", ",">>
    /\ lib.op = "isInWatchedFolder"
    /\ lib.arg = PathAbx
    /\ lib.ret

\* C28 happens for the route rules: with "/A:p,/a:q" the path "/Ab/x" went to
\* the channel of the rule "/a".
C28_RouteWitness ==
    /\ envDropboxMapping = <<"/", "A", ":", "p", ",", "/", "a", ":", "q">>
    /\ lib.op = "getChannelForPath"
    /\ lib.arg = PathAbx
    /\ lib.ret = <<"q">>

====
